---- MODULE Spec2Model ----
(***************************************************************************)
(* Model of attractions_similarity_updater.py: the pair scorer, the        *)
(* threshold filter, the grouping routine _groups_idx, the labeler         *)
(* _groups_df and the driver main.                                         *)
(*                                                                         *)
(* Items are the rows 0..n-1 of the preprocessed DataFrame.  Scores are    *)
(* cosine scores in hundredths (65 stands for 0.65).  A Python list is a   *)
(* sequence (1-based here, 0-based there), a Python set is a set.          *)
(* uuid.uuid4() is modelled as a source of tokens that never repeats.      *)
(***************************************************************************)
EXTENDS Integers, Sequences, FiniteSets

\* ------------------------------------------------------------- bounds
MaxItems == 4      \* most rows fetched in one invocation
MaxEdges == 4      \* longest pair list handed to _groups_idx directly

\* ---------------------------------------------------------- constants
SIMILARITY_THRESHOLD == 65
StatusOk == 200
StatusFailed == 404

\* Scores a pair may get: at the threshold, and two values above it.
Scores == {SIMILARITY_THRESHOLD, 70, 90}

\* Value of the 'uuid' column of row i (ids are not row indices).
Uuid(i) == 100 + i

\* First similarity token; similarity_uuid of a row starts as 0.
FirstToken == 1000
NoToken == 0

VARIABLES
    n,                   \* number of rows in the database snapshot
    score,               \* cosine score of every pair <<i, j>>, i < j
    pc,                  \* position in main / compute_similarity_groups
    failed,              \* where an exception was raised: "none" or a stage
    similarity_df,       \* list of [index, score], sorted by score descending
    above,               \* similarity_df_above_threshold
    rest,                \* pairs _groups_idx still has to iterate over
    sets_list,           \* _groups_idx's list of sets
    groups_list,         \* groups _groups_df still has to label
    column,              \* df_above_threshold['similarity_uuid'], by row index
    next_uuid,           \* the next token uuid4 will return
    similarity_updates,  \* the records compute_similarity_groups returned
    sent,                \* payloads given to queue.send_messages, this invocation
    response,            \* statusCode of main's response, 0 before it is built
    run,                 \* number of the current call of compute_similarity_groups
    history              \* the record lists returned by completed computations

vars == <<n, score, pc, failed, similarity_df, above, rest, sets_list,
          groups_list, column, next_uuid, similarity_updates, sent, response,
          run, history>>

\* ------------------------------------------------------------ helpers
Range(s) == {s[k] : k \in DOMAIN s}

\* All pairs [i, j] with i < j over rows 0..m-1
Pairs(m) == {p \in (0 .. m - 1) \X (0 .. m - 1) : p[1] < p[2]}

\* set(idx) of a pair
IdxSet(idx) == {idx[1], idx[2]}

\* The nested loops of _pairs_df_model: pairs in order (0,1),(0,2),...,(m-2,m-1)
RECURSIVE EnumPairs(_, _, _)
EnumPairs(m, i, j) ==
    IF i >= m - 1 THEN <<>>
    ELSE IF j >= m THEN EnumPairs(m, i + 1, i + 2)
    ELSE <<[index |-> <<i, j>>, score |-> score[<<i, j>>]]>> \o EnumPairs(m, i, j + 1)

\* Insert r behind every element whose score is >= r.score (stable, descending)
RECURSIVE InsertDesc(_, _)
InsertDesc(s, r) ==
    IF s = <<>> THEN <<r>>
    ELSE IF Head(s).score >= r.score THEN <<Head(s)>> \o InsertDesc(Tail(s), r)
    ELSE <<r>> \o s

\* sorted(pairs, key=score, reverse=True): stable, equal scores keep their order
RECURSIVE SortedDesc(_)
SortedDesc(s) ==
    IF s = <<>> THEN <<>>
    ELSE InsertDesc(SortedDesc(SubSeq(s, 1, Len(s) - 1)), s[Len(s)])

\* the filter with >= in place of >
KeepPairInclusive(r) == r.score >= SIMILARITY_THRESHOLD

\* similarity_df[similarity_df["score"] > SIMILARITY_THRESHOLD]
KeepPair(r) == r.score > SIMILARITY_THRESHOLD
AboveThreshold(s) == SelectSeq(s, KeepPair)

\* list.remove(x): drop the first element equal to x
RemoveFirst(list, x) ==
    LET p == CHOOSE q \in 1 .. Len(list) :
                 list[q] = x /\ \A r \in 1 .. q - 1 : list[r] # x
    IN  SubSeq(list, 1, p - 1) \o SubSeq(list, p + 1, Len(list))

\* The inner loop "for group in sets_list" of _groups_idx, with the list
\* iterator at position k (1-based).  The list is changed while it is iterated
\* over: after a remove the iterator still advances by one.
RECURSIVE InnerLoop(_, _, _, _, _)
InnerLoop(list, k, idx, first_match, was_selected) ==
    IF k > Len(list)
    THEN [list |-> list, first_match |-> first_match, was_selected |-> was_selected]
    ELSE IF IdxSet(idx) \cap list[k] # {}
         THEN LET group   == list[k] \cup IdxSet(idx)
                  updated == [list EXCEPT ![k] = group]
              IN  InnerLoop(RemoveFirst(updated, group), k + 1, idx,
                            first_match \cup group, TRUE)
         ELSE InnerLoop(list, k + 1, idx, first_match, was_selected)

\* the outer loop body without sets_list.append(first_match)
ProcessPairNoAppend(list, idx) ==
    LET r == InnerLoop(list, 1, idx, {}, FALSE)
    IN  IF ~r.was_selected THEN Append(r.list, IdxSet(idx)) ELSE r.list

\* One iteration of the outer loop of _groups_idx for the pair idx
ProcessPair(list, idx) ==
    LET r  == InnerLoop(list, 1, idx, {}, FALSE)
        l1 == IF r.first_match # {} THEN Append(r.list, r.first_match) ELSE r.list
    IN  IF ~r.was_selected THEN Append(l1, IdxSet(idx)) ELSE l1

\* _groups_idx on a whole list of pairs
RECURSIVE GroupsIdx(_, _)
GroupsIdx(list, idxs) ==
    IF idxs = <<>> THEN list
    ELSE GroupsIdx(ProcessPair(list, Head(idxs)), Tail(idxs))

\* above_threshold_idx taken from the first index of every pair only
TouchedFirst(s) == {s[k].index[1] : k \in DOMAIN s}

\* above_threshold_idx: every row index that occurs in a pair of the list
Touched(s) == UNION {IdxSet(s[k].index) : k \in DOMAIN s}

\* df_above_threshold.to_dict('records') for the rows dom, in row order
RECURSIVE Records(_, _)
Records(dom, col) ==
    IF dom = {} THEN <<>>
    ELSE LET i == CHOOSE x \in dom : \A y \in dom : x <= y
         IN  <<[id |-> Uuid(i), similarity_uuid |-> col[i]]>>
                 \o Records(dom \ {i}, col)

\* ---------------------------------------------------------------- Init
\* main starts on a database snapshot of n rows with any scores
Init ==
    /\ n \in 0 .. MaxItems
    /\ score \in [Pairs(n) -> Scores]
    /\ pc = "start"
    /\ failed = "none"
    /\ similarity_df = <<>>
    /\ above = <<>>
    /\ rest = <<>>
    /\ sets_list = <<>>
    /\ groups_list = <<>>
    /\ column = <<>>
    /\ similarity_updates = <<>>
    /\ sent = <<>>
    /\ response = 0
    /\ next_uuid = FirstToken
    /\ run = 1
    /\ history = <<>>

\* ------------------------------------------------------------- actions
Raise(stage) ==
    /\ pc' = "except"
    /\ failed' = stage

\* db._fetch_attraction_ids_map() returns the rows
Fetch ==
    /\ pc = "start"
    /\ pc' = "fetched"
    /\ UNCHANGED <<n, score, failed, similarity_df, above, rest, sets_list,
                   groups_list, column, next_uuid, similarity_updates, sent,
                   response, run, history>>

\* DataBase() or the fetch raises
FetchRaises ==
    /\ pc = "start"
    /\ Raise("fetch")
    /\ UNCHANGED <<n, score, similarity_df, above, rest, sets_list,
                   groups_list, column, next_uuid, similarity_updates, sent,
                   response, run, history>>

\* _pairs_df_model: with no pair the DataFrame has no "index" column and
\* pairs_df["index"] raises KeyError
PairsDfModel ==
    /\ pc = "fetched"
    /\ LET pairs == SortedDesc(EnumPairs(n, 0, 1))
       IN  IF pairs = <<>>
           THEN /\ Raise("compute")
                /\ UNCHANGED similarity_df
           ELSE /\ similarity_df' = pairs
                /\ pc' = "scored"
                /\ UNCHANGED failed
    /\ UNCHANGED <<n, score, above, rest, sets_list, groups_list, column,
                   next_uuid, similarity_updates, sent, response, run, history>>

\* the threshold filter and the start of _groups_df and _groups_idx
ThresholdFilter ==
    /\ pc = "scored"
    /\ above' = AboveThreshold(similarity_df)
    /\ column' = [i \in Touched(above') |-> NoToken]
    /\ rest' = [k \in DOMAIN above' |-> above'[k].index]
    /\ sets_list' = <<>>
    /\ pc' = "grouping"
    /\ UNCHANGED <<n, score, failed, similarity_df, groups_list, next_uuid,
                   similarity_updates, sent, response, run, history>>

\* one iteration of "for idx in similarity_df['index'].values"
GroupsIdxStep ==
    /\ pc = "grouping"
    /\ rest # <<>>
    /\ sets_list' = ProcessPair(sets_list, Head(rest))
    /\ rest' = Tail(rest)
    /\ UNCHANGED <<n, score, pc, failed, similarity_df, above, groups_list,
                   column, next_uuid, similarity_updates, sent, response, run,
                   history>>

\* _groups_idx returns sets_list to _groups_df
GroupsIdxReturn ==
    /\ pc = "grouping"
    /\ rest = <<>>
    /\ groups_list' = sets_list
    /\ pc' = "labeling"
    /\ UNCHANGED <<n, score, failed, similarity_df, above, rest, sets_list,
                   column, next_uuid, similarity_updates, sent, response, run,
                   history>>

\* one token made before the loop and given to every group
GroupTokenOnce == FirstToken

\* a token derived from the group's smallest member
GroupTokenFromMembers ==
    FirstToken + (CHOOSE x \in Head(groups_list) : \A y \in Head(groups_list) : x <= y)

\* the token one group's rows get: str(uuid.uuid4())
GroupToken == next_uuid

\* one iteration of "for group in groups_list": a new uuid4 for the group's rows
LabelStep ==
    /\ pc = "labeling"
    /\ groups_list # <<>>
    /\ column' = [i \in DOMAIN column |->
                     IF i \in Head(groups_list) THEN GroupToken ELSE column[i]]
    /\ next_uuid' = next_uuid + 1
    /\ groups_list' = Tail(groups_list)
    /\ UNCHANGED <<n, score, pc, failed, similarity_df, above, rest, sets_list,
                   similarity_updates, sent, response, run, history>>

\* _groups_df and compute_similarity_groups return the records
GroupsDfReturn ==
    /\ pc = "labeling"
    /\ groups_list = <<>>
    /\ similarity_updates' = Records(DOMAIN column, column)
    /\ history' = Append(history, similarity_updates')
    /\ pc' = "computed"
    /\ UNCHANGED <<n, score, failed, similarity_df, above, rest, sets_list,
                   groups_list, column, next_uuid, sent, response, run>>

\* queue.send_messages(similarity_updates, "similarity", 50) completes
Send ==
    /\ pc = "computed"
    /\ sent' = Append(sent, similarity_updates)
    /\ pc' = "sent"
    /\ UNCHANGED <<n, score, failed, similarity_df, above, rest, sets_list,
                   groups_list, column, next_uuid, similarity_updates,
                   response, run, history>>

\* SQSQueue(QUEUE_URL) or send_messages raises
SendRaises ==
    /\ pc = "computed"
    /\ Raise("send")
    /\ UNCHANGED <<n, score, similarity_df, above, rest, sets_list,
                   groups_list, column, next_uuid, similarity_updates, sent,
                   response, run, history>>

\* the response of the try block
Respond ==
    /\ pc = "sent"
    /\ response' = StatusOk
    /\ pc' = "done"
    /\ UNCHANGED <<n, score, failed, similarity_df, above, rest, sets_list,
                   groups_list, column, next_uuid, similarity_updates, sent,
                   run, history>>

\* a handler that answers with the success status
ExceptAnswersOk ==
    /\ pc = "except"
    /\ response' = StatusOk
    /\ pc' = "done"
    /\ UNCHANGED <<n, score, failed, similarity_df, above, rest, sets_list,
                   groups_list, column, next_uuid, similarity_updates, sent,
                   run, history>>

\* except Exception: the failure response
Except ==
    /\ pc = "except"
    /\ response' = StatusFailed
    /\ pc' = "done"
    /\ UNCHANGED <<n, score, failed, similarity_df, above, rest, sets_list,
                   groups_list, column, next_uuid, similarity_updates, sent,
                   run, history>>

\* compute_similarity_groups is called a second time with the same attractions;
\* uuid4 goes on from where it was
Recompute ==
    /\ pc = "computed"
    /\ run = 1
    /\ run' = run + 1
    /\ pc' = "fetched"
    /\ similarity_df' = <<>>
    /\ above' = <<>>
    /\ rest' = <<>>
    /\ sets_list' = <<>>
    /\ groups_list' = <<>>
    /\ column' = <<>>
    /\ similarity_updates' = <<>>
    /\ UNCHANGED <<n, score, failed, next_uuid, sent, response, history>>

\* ------------------------------------------------------ specifications
\* One invocation of main.
Next ==
    \/ Fetch
    \/ FetchRaises
    \/ PairsDfModel
    \/ ThresholdFilter
    \/ GroupsIdxStep
    \/ GroupsIdxReturn
    \/ LabelStep
    \/ GroupsDfReturn
    \/ Send
    \/ SendRaises
    \/ Respond
    \/ Except

Spec == Init /\ [][Next]_vars

\* _groups_idx called on any list of distinct pairs, in any order.
PairLists(m) ==
    UNION {{s \in [1 .. k -> Pairs(m)] :
                \A a, b \in 1 .. k : a # b => s[a] # s[b]} : k \in 0 .. MaxEdges}

InitIdx ==
    /\ n \in 0 .. MaxItems
    /\ score = [p \in Pairs(n) |-> 90]
    /\ \E order \in PairLists(n) :
          /\ above = [k \in DOMAIN order |->
                         [index |-> order[k], score |-> score[order[k]]]]
          /\ rest = order
    /\ pc = "grouping"
    /\ failed = "none"
    /\ similarity_df = <<>>
    /\ sets_list = <<>>
    /\ groups_list = <<>>
    /\ column = <<>>
    /\ similarity_updates = <<>>
    /\ sent = <<>>
    /\ response = 0
    /\ next_uuid = FirstToken
    /\ run = 1
    /\ history = <<>>

NextIdx ==
    \/ GroupsIdxStep
    \/ GroupsIdxReturn

SpecIdx == InitIdx /\ [][NextIdx]_vars

\* compute_similarity_groups called twice on the same attractions.
InitTwice ==
    /\ n \in 0 .. MaxItems
    /\ score \in [Pairs(n) -> Scores]
    /\ pc = "fetched"
    /\ failed = "none"
    /\ similarity_df = <<>>
    /\ above = <<>>
    /\ rest = <<>>
    /\ sets_list = <<>>
    /\ groups_list = <<>>
    /\ column = <<>>
    /\ similarity_updates = <<>>
    /\ sent = <<>>
    /\ response = 0
    /\ next_uuid = FirstToken
    /\ run = 1
    /\ history = <<>>

NextTwice ==
    \/ PairsDfModel
    \/ ThresholdFilter
    \/ GroupsIdxStep
    \/ GroupsIdxReturn
    \/ LabelStep
    \/ GroupsDfReturn
    \/ Recompute

SpecTwice == InitTwice /\ [][NextTwice]_vars

\* ------------------------------------------- notions of the properties
\* score(a, b) of two different rows, in either order
ScoreOf(a, b) == IF a < b THEN score[<<a, b>>] ELSE score[<<b, a>>]

\* a and b are directly similar: their pair passes the threshold
Similar(a, b) == a # b /\ ScoreOf(a, b) > SIMILARITY_THRESHOLD

\* the rows reachable from the rows S over the edges E (pairs of rows)
RECURSIVE Reach(_, _)
Reach(S, E) ==
    LET T == S \cup {e[2] : e \in {d \in E : d[1] \in S}}
               \cup {e[1] : e \in {d \in E : d[2] \in S}}
    IN  IF T = S THEN S ELSE Reach(T, E)

\* the above-threshold pairs of the snapshot, and of a list of pair records
SimilarPairs == {p \in Pairs(n) : score[p] > SIMILARITY_THRESHOLD}
EdgesOf(s) == {s[k].index : k \in DOMAIN s}

\* the group ids the records recs give row i (one per record of that row)
GroupIds(recs, i) == {recs[k].similarity_uuid : k \in {x \in DOMAIN recs : recs[x].id = Uuid(i)}}

\* number of records of recs that are about row i
RecordCount(recs, i) == Cardinality({k \in DOMAIN recs : recs[k].id = Uuid(i)})

\* rows a and b both have a record and the records carry one and the same id
SameGroup(recs, a, b) ==
    /\ GroupIds(recs, a) # {}
    /\ GroupIds(recs, b) # {}
    /\ Cardinality(GroupIds(recs, a) \cup GroupIds(recs, b)) = 1

Rows == 0 .. n - 1

\* the rows that occur in at least one pair of the list s
IndicesOf(s) == {i \in Rows : \E k \in DOMAIN s : i = s[k].index[1] \/ i = s[k].index[2]}

\* the pairs _groups_idx has processed so far
Processed == SubSeq(above, 1, Len(above) - Len(rest))

\* the pair list _groups_idx was given
EdgesSeq == [k \in DOMAIN above |-> above[k].index]

\* all orders of the pair list s
Orders(s) ==
    {[k \in DOMAIN s |-> s[f[k]]] :
        f \in {g \in [DOMAIN s -> DOMAIN s] : \A a, b \in DOMAIN s : a # b => g[a] # g[b]}}

\* ------------------------------------------------------------ properties
\* C1: whenever score(a,b) > t and score(b,c) > t, the records that
\* compute_similarity_groups returns give a, b and c the same group_id.
C1_Transitivity ==
    pc = "computed" =>
        \A a, b, c \in Rows :
            (Similar(a, b) /\ Similar(b, c)) =>
                /\ SameGroup(similarity_updates, a, b)
                /\ SameGroup(similarity_updates, b, c)

\* C2: after every pair _groups_idx has processed, the sets of its list are
\* pairwise disjoint.
C2_Disjoint ==
    \A p, q \in DOMAIN sets_list : p # q => sets_list[p] \cap sets_list[q] = {}

\* C3: _groups_idx returns the same partition for every order of its pair list.
C3_OrderIndependent ==
    pc = "labeling" =>
        \A other \in Orders(EdgesSeq) :
            Range(GroupsIdx(<<>>, other)) = Range(groups_list)

\* the group id of row i in recs, NoToken when the row has no record
GroupIdOf(recs, i) ==
    IF \E k \in DOMAIN recs : recs[k].id = Uuid(i)
    THEN recs[CHOOSE k \in DOMAIN recs : recs[k].id = Uuid(i)].similarity_uuid
    ELSE NoToken

\* C4: two rows get the same group_id only if a path of above-threshold pairs
\* connects them (rows of different components get different ids), and every
\* set _groups_idx returns lies inside one component.
C4_Soundness ==
    LET edges == SimilarPairs
    IN  /\ pc = "labeling" =>
               \A k \in DOMAIN sets_list :
                   sets_list[k] \subseteq
                       Reach({CHOOSE a \in sets_list[k] : TRUE}, edges)
        /\ pc = "computed" =>
               \A a \in Rows :
                   LET id == GroupIdOf(similarity_updates, a)
                   IN  id # NoToken =>
                           {b \in Rows : GroupIdOf(similarity_updates, b) = id}
                               \subseteq Reach({a}, edges)

\* C4 witness: two components were labeled and their rows carry different ids
C4_Witness ==
    /\ pc = "computed"
    /\ \E a, b \in Rows :
          /\ GroupIds(similarity_updates, a) # {}
          /\ GroupIds(similarity_updates, b) # {}
          /\ b \notin Reach({a}, SimilarPairs)
          /\ GroupIds(similarity_updates, a) \cap GroupIds(similarity_updates, b) = {}

\* C5: the union of the sets of _groups_idx is exactly the set of indices of
\* the pairs processed so far, hence of all pairs when it returns.
C5_Coverage ==
    /\ pc = "grouping" => UNION Range(sets_list) = IndicesOf(Processed)
    /\ pc = "labeling" => UNION Range(groups_list) = IndicesOf(above)

\* C5 witness: _groups_idx returned after a pair hit a group that was removed
\* and re-appended while another group holding one of its indices stayed
C5_Witness ==
    /\ pc = "labeling"
    /\ Len(groups_list) >= 2
    /\ \E p, q \in DOMAIN groups_list : p # q /\ groups_list[p] \cap groups_list[q] # {}
    /\ UNION Range(groups_list) = IndicesOf(above)

\* C6: the returned list holds exactly one record for every row that occurs in
\* a pair with score > threshold and none for any other row.
C6_Membership ==
    pc = "computed" =>
        /\ \A i \in Rows :
              RecordCount(similarity_updates, i) =
                  IF \E j \in Rows : Similar(i, j) THEN 1 ELSE 0
        /\ \A k \in DOMAIN similarity_updates :
              \E i \in Rows : similarity_updates[k].id = Uuid(i)

\* C6 witness: a result with a record for one row and none for another
C6_Witness ==
    /\ pc = "computed"
    /\ \E i, j \in Rows :
          /\ RecordCount(similarity_updates, i) = 1
          /\ RecordCount(similarity_updates, j) = 0

\* C7: a pair is kept iff its score is strictly greater than the threshold; two
\* rows whose only pair scores exactly the threshold get an empty output.
C7_Strict ==
    /\ pc \in {"grouping", "labeling", "computed"} =>
           \A p \in Pairs(n) :
               (p \in EdgesOf(above)) <=> (score[p] > SIMILARITY_THRESHOLD)
    /\ (pc = "computed" /\ n = 2 /\ score[<<0, 1>>] = SIMILARITY_THRESHOLD) =>
           similarity_updates = <<>>

\* C7 witness: rows A, B with score(A,B) = threshold went through and got nothing
C7_Witness ==
    /\ pc = "computed"
    /\ n = 2
    /\ score[<<0, 1>>] = SIMILARITY_THRESHOLD
    /\ similarity_updates = <<>>

\* C8: with fewer than 2 rows compute_similarity_groups raises nothing and
\* returns an empty list.
C8_SmallInput ==
    n < 2 =>
        /\ failed # "compute"
        /\ pc \in {"computed", "sent"} => similarity_updates = <<>>

\* C9: when the fetch or the computation raises, main answers 404 and never
\* calls send_messages; send_messages gets the complete computed result; 200 is
\* answered only after the send completed.
C9_Driver ==
    /\ failed \in {"fetch", "compute"} => sent = <<>> /\ response # StatusOk
    /\ (pc = "done" /\ failed # "none") => response = StatusFailed
    /\ sent # <<>> =>
           /\ Len(sent) = 1
           /\ history # <<>>
           /\ sent[1] = history[Len(history)]
    /\ response = StatusOk => (pc = "done" /\ failed = "none" /\ sent # <<>>)

\* C9 witness: the computation raised and main answered 404 without sending
C9_Witness ==
    /\ pc = "done"
    /\ failed = "compute"
    /\ response = StatusFailed
    /\ sent = <<>>

\* the tokens a list of records carries
TokensOf(recs) == {recs[k].similarity_uuid : k \in DOMAIN recs}

\* C10: two runs of compute_similarity_groups on the same input give the same
\* membership (the same rows share a group_id) and no token of the second run
\* is a token of the first.
C10_Repeatable ==
    Len(history) = 2 =>
        /\ \A i \in Rows : RecordCount(history[1], i) = RecordCount(history[2], i)
        /\ \A a, b \in Rows : SameGroup(history[1], a, b) <=> SameGroup(history[2], a, b)
        /\ TokensOf(history[1]) \cap TokensOf(history[2]) = {}

\* C10 witness: both runs returned, each with two groups
C10_Witness ==
    /\ Len(history) = 2
    /\ Cardinality(TokensOf(history[1])) >= 2
    /\ Cardinality(TokensOf(history[2])) >= 2

====
